---- MODULE Spec2Model ----
(***************************************************************************)
(* fastnbt, src/de_arrays.rs: the typed-array sub-decoder.                 *)
(*                                                                         *)
(* ArrayWrapperAccess presents an NBT ByteArray / IntArray / LongArray as  *)
(* a two-field map ("tag", "data"); ArrayDeserializer is the deserializer  *)
(* handed to the consumer for the data field and for every element;        *)
(* ArrayAccess is the counted sequence over the elements.  All three share *)
(* one cursor, the input slice self.de.input.0 of the outer Deserializer.  *)
(*                                                                         *)
(* The consumer (serde's seeds and visitors) is the environment: it        *)
(* decides which call comes next and as which kind it asks for a value.    *)
(* The input is built as the test builder (nbt/test/builder.rs) builds an  *)
(* array: the int32 count, then the elements, all big-endian.              *)
(*                                                                         *)
(* Integers wider than TLC's are kept as their 16-bit limbs, most          *)
(* significant first (a one-byte integer is one 8-bit limb); the top limb  *)
(* of a signed integer is signed.                                          *)
(***************************************************************************)
EXTENDS Integers, Sequences, FiniteSets, TLC

\* Largest declared element count (ArrayWrapperAccess.size) explored.
MaxCount == 3
\* Largest number of elements actually present in the payload.
MaxElems == 3

VARIABLES
    input,      \* the whole byte buffer behind self.de.input.0 (never changes)
    pos,        \* the cursor: bytes of input already consumed
    start,      \* the cursor when the ArrayWrapperAccess was created
    written,    \* the element values the builder encoded into the payload
    tag,        \* ArrayWrapperAccess.tag
    size,       \* ArrayWrapperAccess.size
    stage,      \* ArrayWrapperAccess.stage
    live,       \* TRUE while an ArrayAccess made for the data field exists
    hint,       \* ArrayAccess.hint
    remaining,  \* ArrayAccess.remaining
    pc,         \* where the consumer is: "map", "seq" (inside visit_seq), "panicked"
    ret,        \* what the last call returned to the consumer
    fields,     \* the values the consumer was supplied for "tag" and "data"
    data,       \* the elements next_element_seed has produced, in order
    asked,      \* the kinds the consumer has asked ArrayAccess elements as
    failed,     \* next_element_seed calls that returned Err
    exhausted   \* TRUE once next_element_seed has returned Ok(None)

vars == <<input, pos, start, written, tag, size, stage, live, hint, remaining,
          pc, ret, fields, data, asked, failed, exhausted>>

----------------------------------------------------------------------------
\* Tags, kinds and widths

ArrayTags == {"ByteArray", "IntArray", "LongArray"}

\* u8::from(Tag): the numeric code of an array tag.
TagCode(t) ==
    CASE t = "ByteArray" -> 7
      [] t = "IntArray"  -> 11
      [] t = "LongArray" -> 12

\* The entry points of ArrayDeserializer that read a scalar from the cursor.
ScalarKinds == {"i8", "u8", "i32", "u32", "i64", "u64"}

\* Every way a seed can ask an ArrayDeserializer for a value: the scalar
\* entry points, deserialize_seq, and "other" for every entry point that
\* forward_to_deserialize_any! sends to deserialize_any.
Kinds == ScalarKinds \cup {"seq", "other"}

\* Bytes read by deserialize_<k>: read_i8/read_u8 one, read_i32/read_u32
\* four, read_i64/read_u64 eight.
Width(k) ==
    CASE k \in {"i8", "u8"}   -> 1
      [] k \in {"i32", "u32"} -> 4
      [] k \in {"i64", "u64"} -> 8

Signed(k) == k \in {"i8", "i32", "i64"}

\* The scalar type the builder writes one element of an array as
\* (byte_array_payload: i8, int_array_payload: i32, long_array_payload: i64).
ElemKind(t) ==
    CASE t = "ByteArray" -> "i8"
      [] t = "IntArray"  -> "i32"
      [] t = "LongArray" -> "i64"

----------------------------------------------------------------------------
\* The builder: values to bytes

\* iN::to_be_bytes (and `b as u8` for one byte): the w bytes of v in two's
\* complement, most significant first.
RECURSIVE to_be_bytes(_, _)
to_be_bytes(v, w) ==
    IF w = 0 THEN <<>>
    ELSE Append(to_be_bytes(v \div 256, w - 1), v % 256)

\* Builder::int_payload
int_payload(i) == to_be_bytes(i, 4)

\* Builder::byte_array_payload / int_array_payload / long_array_payload:
\* the elements one after the other, each at the width of its type.
RECURSIVE array_payload(_, _)
array_payload(t, vs) ==
    IF vs = <<>> THEN <<>>
    ELSE to_be_bytes(Head(vs), Width(ElemKind(t))) \o array_payload(t, Tail(vs))

----------------------------------------------------------------------------
\* The primitive reads: bytes to values

\* The 16-bit limbs of a byte string of even length, most significant first.
RECURSIVE Limbs(_)
Limbs(bs) ==
    IF bs = <<>> THEN <<>>
    ELSE <<bs[1] * 256 + bs[2]>> \o Limbs(SubSeq(bs, 3, Len(bs)))

\* The top limb of a signed integer, from its unsigned reading; half is 2^(bits - 1).
SignedTop(x, half) == IF x >= half THEN x - 2 * half ELSE x

\* Mutant of from_be_bytes: the bytes taken least significant first.
from_le_bytes(bs, k) ==
    LET rev  == [i \in 1 .. Len(bs) |-> bs[Len(bs) + 1 - i]]
        raw  == IF Len(bs) = 1 THEN <<bs[1]>> ELSE Limbs(rev)
        half == IF Len(bs) = 1 THEN 128 ELSE 32768
    IN  [kind  |-> k,
         limbs |-> IF Signed(k)
                   THEN <<SignedTop(raw[1], half)>> \o Tail(raw)
                   ELSE raw]

\* iN::from_be_bytes / uN::from_be_bytes as byteorder's BigEndian applies
\* them: the value of the bytes bs read as kind k.
from_be_bytes(bs, k) ==
    LET raw  == IF Len(bs) = 1 THEN <<bs[1]>> ELSE Limbs(bs)
        half == IF Len(bs) = 1 THEN 128 ELSE 32768
    IN  [kind  |-> k,
         limbs |-> IF Signed(k)
                   THEN <<SignedTop(raw[1], half)>> \o Tail(raw)
                   ELSE raw]

NoValue == [kind |-> "none", limbs |-> <<>>]

\* What a call hands back to the consumer: the operation, how it ended
\* ("Ok", "Some", "None", "Err", "Panic"), the value if any, and the key
\* (next_key_seed) or the error or panic message.
Ret(op, res, val, msg) == [op |-> op, res |-> res, val |-> val, msg |-> msg]

\* Mutant of read: a read that runs out of input pads what is left with
\* zero bytes and succeeds.
read_zero_padded(k, p) ==
    LET have == IF p < Len(input) THEN SubSeq(input, p + 1, Len(input)) ELSE <<>>
        pad  == [i \in 1 .. Width(k) |-> IF i <= Len(have) THEN have[i] ELSE 0]
    IN  IF p + Width(k) <= Len(input)
        THEN {[ok  |-> TRUE,
               val |-> from_be_bytes(SubSeq(input, p + 1, p + Width(k)), k),
               err |-> "",
               pos |-> p + Width(k)]}
        ELSE {[ok |-> TRUE, val |-> from_be_bytes(pad, k), err |-> "", pos |-> Len(input)]}

\* Mutant of read: a read that runs out of input puts the cursor back at
\* the start of the buffer.
read_rewinds(k, p) ==
    IF p + Width(k) <= Len(input)
    THEN {[ok  |-> TRUE,
           val |-> from_be_bytes(SubSeq(input, p + 1, p + Width(k)), k),
           err |-> "",
           pos |-> p + Width(k)]}
    ELSE {[ok |-> FALSE, val |-> NoValue, err |-> "io: UnexpectedEof", pos |-> 0]}

\* Mutant of read: every scalar read takes one byte's worth of cursor.
read_one_byte(k, p) ==
    IF p + Width(k) <= Len(input)
    THEN {[ok  |-> TRUE,
           val |-> from_be_bytes(SubSeq(input, p + 1, p + Width(k)), k),
           err |-> "",
           pos |-> p + 1]}
    ELSE {[ok |-> FALSE, val |-> NoValue, err |-> "io: UnexpectedEof", pos |-> q] :
             q \in {p, Len(input)}}

\* self.de.input.0.read_<k>(): the outcomes of reading a scalar of kind k
\* with the cursor at p.  With Width(k) bytes left the read returns their
\* value and moves the cursor past them.  With fewer it fails with
\* io::ErrorKind::UnexpectedEof; <&[u8] as Read>::read_exact then leaves the
\* slice as it was or empties it, depending on the standard library the
\* crate is built with, so both outcomes are kept.
read(k, p) ==
    IF p + Width(k) <= Len(input)
    THEN {[ok  |-> TRUE,
           val |-> from_be_bytes(SubSeq(input, p + 1, p + Width(k)), k),
           err |-> "",
           pos |-> p + Width(k)]}
    ELSE {[ok |-> FALSE, val |-> NoValue, err |-> "io: UnexpectedEof", pos |-> q] :
             q \in {p, Len(input)}}

\* Mutant of deserialize_any: a generic fallback that decodes a byte.
deserialize_any_fallback(p) ==
    IF p + 1 <= Len(input)
    THEN {[ok |-> TRUE, val |-> from_be_bytes(SubSeq(input, p + 1, p + 1), "u8"),
           err |-> "", pos |-> p + 1]}
    ELSE {[ok |-> FALSE, val |-> NoValue, err |-> "io: UnexpectedEof", pos |-> p]}

\* ArrayDeserializer::deserialize_any: every entry point that is not a
\* sequence or an 8/32/64-bit integer ends here, the cursor untouched.
deserialize_any(p) ==
    {[ok |-> FALSE, val |-> NoValue,
      err |-> "bespoke: fastnbt issue: unexpected any in ArrayDeserializer",
      pos |-> p]}

\* ArrayDeserializer::deserialize_seq: visitor.visit_seq(ArrayAccess::new(..)),
\* the cursor untouched; the caller sets up the ArrayAccess.
deserialize_seq(p) ==
    {[ok |-> TRUE, val |-> [kind |-> "seq", limbs |-> <<>>], err |-> "", pos |-> p]}

\* seed.deserialize(ArrayDeserializer {..}): the seed picks the entry point.
ArrayDeserializer(k, p) ==
    CASE k \in ScalarKinds -> read(k, p)
      [] k = "seq"         -> deserialize_seq(p)
      [] OTHER             -> deserialize_any(p)

----------------------------------------------------------------------------
\* The inputs explored

\* Element values the builder is given, per array type.
ElemVals(t) ==
    CASE t = "ByteArray" -> {1, -2}
      [] t = "IntArray"  -> {1, -2, 300}
      [] t = "LongArray" -> {-2, 300}

\* The Deserializer has read the int32 count and made the adapter:
\* ArrayWrapperAccess::new(de, size, tag).  The payload holds Len(written)
\* elements, which may be fewer or more than the declared count.
Init ==
    /\ tag \in ArrayTags
    /\ size \in -1 .. MaxCount
    /\ written \in UNION {[1 .. m -> ElemVals(tag)] : m \in 0 .. MaxElems}
    /\ input = int_payload(size) \o array_payload(tag, written)
    /\ pos = Len(int_payload(size))
    /\ start = pos
    /\ stage = "Tag"
    /\ live = FALSE
    /\ hint = 0
    /\ remaining = 0
    /\ pc = "map"
    /\ ret = Ret("new", "Ok", NoValue, "")
    /\ fields = [tag |-> NoValue, data |-> NoValue]
    /\ data = <<>>
    /\ asked = {}
    /\ failed = 0
    /\ exhausted = FALSE

----------------------------------------------------------------------------
\* ArrayWrapperAccess as MapAccess

\* Mutant of next_key_seed: asking for the key moves the stage on.
next_key_seed_advances ==
    /\ pc = "map"
    /\ ret' = CASE stage = "Tag"  -> Ret("next_key", "Some", NoValue, "tag")
                [] stage = "Data" -> Ret("next_key", "Some", NoValue, "data")
                [] stage = "Done" -> Ret("next_key", "None", NoValue, "")
    /\ stage' = IF stage = "Tag" THEN "Data" ELSE stage
    /\ UNCHANGED <<input, pos, start, written, tag, size, live, hint,
                   remaining, pc, fields, data, asked, failed, exhausted>>

\* Mutant of next_key_seed: the two keys the wrong way round.
next_key_seed_swapped ==
    /\ pc = "map"
    /\ ret' = CASE stage = "Tag"  -> Ret("next_key", "Some", NoValue, "data")
                [] stage = "Data" -> Ret("next_key", "Some", NoValue, "tag")
                [] stage = "Done" -> Ret("next_key", "None", NoValue, "")
    /\ UNCHANGED <<input, pos, start, written, tag, size, stage, live, hint,
                   remaining, pc, fields, data, asked, failed, exhausted>>

\* next_key_seed: the key for the current stage; nothing changes.
next_key_seed ==
    /\ pc = "map"
    /\ ret' = CASE stage = "Tag"  -> Ret("next_key", "Some", NoValue, "tag")
                [] stage = "Data" -> Ret("next_key", "Some", NoValue, "data")
                [] stage = "Done" -> Ret("next_key", "None", NoValue, "")
    /\ UNCHANGED <<input, pos, start, written, tag, size, stage, live, hint,
                   remaining, pc, fields, data, asked, failed, exhausted>>

\* Mutant of ValueTag: the tag byte is taken from the input, which moves
\* the cursor, instead of from self.tag.
ValueTagReadsInput ==
    /\ pc = "map"
    /\ stage = "Tag"
    /\ stage' = "Data"
    /\ pos' = pos + 1
    /\ LET t == [kind |-> "u8", limbs |-> <<TagCode(tag)>>]
       IN  /\ ret' = Ret("next_value", "Ok", t, "")
           /\ fields' = [fields EXCEPT !.tag = t]
    /\ UNCHANGED <<input, start, written, tag, size, live, hint,
                   remaining, pc, data, asked, failed, exhausted>>

\* Mutant of ValueTag: the stage set to Done, so the data field is skipped.
ValueTagSkipsData ==
    /\ pc = "map"
    /\ stage = "Tag"
    /\ stage' = "Done"
    /\ LET t == [kind |-> "u8", limbs |-> <<TagCode(tag)>>]
       IN  /\ ret' = Ret("next_value", "Ok", t, "")
           /\ fields' = [fields EXCEPT !.tag = t]
    /\ UNCHANGED <<input, pos, start, written, tag, size, live, hint,
                   remaining, pc, data, asked, failed, exhausted>>

\* next_value_seed, stage Tag: the tag's code through a U8Deserializer.
ValueTag ==
    /\ pc = "map"
    /\ stage = "Tag"
    /\ stage' = "Data"
    /\ LET t == [kind |-> "u8", limbs |-> <<TagCode(tag)>>]
       IN  /\ ret' = Ret("next_value", "Ok", t, "")
           /\ fields' = [fields EXCEPT !.tag = t]
    /\ UNCHANGED <<input, pos, start, written, tag, size, live, hint,
                   remaining, pc, data, asked, failed, exhausted>>

\* Mutant of ValueData: deserialize_seq builds the ArrayAccess with the
\* size of an element's ArrayDeserializer, 0, instead of self.size.
ValueDataSizeZero(k) ==
    /\ pc = "map"
    /\ stage = "Data"
    /\ stage' = "Done"
    /\ \E o \in ArrayDeserializer(k, pos) :
          /\ pos' = o.pos
          /\ IF k = "seq"
             THEN /\ live' = TRUE
                  /\ hint' = 0
                  /\ remaining' = 0
                  /\ pc' = "seq"
                  /\ ret' = Ret("visit_seq", "Ok", NoValue, "")
                  /\ UNCHANGED fields
             ELSE /\ ret' = IF o.ok THEN Ret("next_value", "Ok", o.val, "")
                                    ELSE Ret("next_value", "Err", NoValue, o.err)
                  /\ fields' = [fields EXCEPT !.data = o.val]
                  /\ UNCHANGED <<live, hint, remaining, pc>>
    /\ UNCHANGED <<input, start, written, tag, size, data, asked, failed, exhausted>>

\* next_value_seed, stage Data: the seed is given ArrayDeserializer {de, size}
\* and asks it for a value of kind k.  deserialize_seq makes the ArrayAccess
\* and enters the consumer's visit_seq; the integer entry points read from
\* the cursor; the others fail in deserialize_any.
ValueData(k) ==
    /\ pc = "map"
    /\ stage = "Data"
    /\ stage' = "Done"
    /\ \E o \in ArrayDeserializer(k, pos) :
          /\ pos' = o.pos
          /\ IF k = "seq"
             THEN /\ live' = TRUE
                  /\ hint' = size
                  /\ remaining' = size
                  /\ pc' = "seq"
                  /\ ret' = Ret("visit_seq", "Ok", NoValue, "")
                  /\ UNCHANGED fields
             ELSE /\ ret' = IF o.ok THEN Ret("next_value", "Ok", o.val, "")
                                    ELSE Ret("next_value", "Err", NoValue, o.err)
                  /\ fields' = [fields EXCEPT !.data = o.val]
                  /\ UNCHANGED <<live, hint, remaining, pc>>
    /\ UNCHANGED <<input, start, written, tag, size, data, asked, failed, exhausted>>

\* Mutant of ValueDone: the extra call reported as an end of input.
ValueDoneAsEof ==
    /\ pc = "map"
    /\ stage = "Done"
    /\ ret' = Ret("next_value", "Err", NoValue, "io: UnexpectedEof")
    /\ UNCHANGED <<input, pos, start, written, tag, size, stage, live, hint,
                   remaining, pc, fields, data, asked, failed, exhausted>>

\* next_value_seed, stage Done: panic!("extra key").
ValueDone ==
    /\ pc = "map"
    /\ stage = "Done"
    /\ pc' = "panicked"
    /\ ret' = Ret("next_value", "Panic", NoValue, "extra key")
    /\ UNCHANGED <<input, pos, start, written, tag, size, stage, live, hint,
                   remaining, fields, data, asked, failed, exhausted>>

next_value_seed ==
    \/ ValueTag
    \/ \E k \in Kinds : ValueData(k)
    \/ ValueDone

----------------------------------------------------------------------------
\* ArrayAccess as SeqAccess

\* Mutant of size_hint: the trait's default, which knows no size.
size_hint_default ==
    /\ pc = "seq"
    /\ ret' = Ret("size_hint", "None", NoValue, "")
    /\ UNCHANGED <<input, pos, start, written, tag, size, stage, live, hint,
                   remaining, pc, fields, data, asked, failed, exhausted>>

\* size_hint: self.hint.try_into().ok(), an Option<usize>.
size_hint ==
    /\ pc = "seq"
    /\ ret' = IF hint >= 0
              THEN Ret("size_hint", "Some", [kind |-> "usize", limbs |-> <<hint>>], "")
              ELSE Ret("size_hint", "None", NoValue, "")
    /\ UNCHANGED <<input, pos, start, written, tag, size, stage, live, hint,
                   remaining, pc, fields, data, asked, failed, exhausted>>

\* Mutant of next_element_seed: the declared count is checked against the
\* bytes left before any element is read.
next_element_seed_checked(k) ==
    /\ pc = "seq"
    /\ IF remaining > 0
       THEN /\ asked' = asked \cup {k}
            /\ IF remaining * Width(ElemKind(tag)) > Len(input) - pos
               THEN /\ remaining' = 0
                    /\ ret' = Ret("next_element", "Err", NoValue, "bespoke: malformed length")
                    /\ failed' = failed + 1
                    /\ UNCHANGED <<pos, data>>
               ELSE /\ remaining' = remaining - 1
                    /\ \E o \in ArrayDeserializer(k, pos) :
                          /\ pos' = o.pos
                          /\ IF o.ok
                             THEN /\ data' = Append(data, o.val)
                                  /\ ret' = Ret("next_element", "Some", o.val, "")
                                  /\ UNCHANGED failed
                             ELSE /\ ret' = Ret("next_element", "Err", NoValue, o.err)
                                  /\ failed' = failed + 1
                                  /\ UNCHANGED data
            /\ UNCHANGED exhausted
       ELSE /\ ret' = Ret("next_element", "None", NoValue, "")
            /\ exhausted' = TRUE
            /\ UNCHANGED <<pos, remaining, data, asked, failed>>
    /\ UNCHANGED <<input, start, written, tag, size, stage, live, hint, pc, fields>>

\* Mutant of next_element_seed: the guard off by one (remaining >= 0).
next_element_seed_off_by_one(k) ==
    /\ pc = "seq"
    /\ IF remaining >= 0
       THEN /\ remaining' = remaining - 1
            /\ asked' = asked \cup {k}
            /\ \E o \in ArrayDeserializer(k, pos) :
                  /\ pos' = o.pos
                  /\ IF o.ok
                     THEN /\ data' = Append(data, o.val)
                          /\ ret' = Ret("next_element", "Some", o.val, "")
                          /\ UNCHANGED failed
                     ELSE /\ ret' = Ret("next_element", "Err", NoValue, o.err)
                          /\ failed' = failed + 1
                          /\ UNCHANGED data
            /\ UNCHANGED exhausted
       ELSE /\ ret' = Ret("next_element", "None", NoValue, "")
            /\ exhausted' = TRUE
            /\ UNCHANGED <<pos, remaining, data, asked, failed>>
    /\ UNCHANGED <<input, start, written, tag, size, stage, live, hint, pc, fields>>

\* Mutant of next_element_seed: remaining decremented only once the element
\* has been read.
next_element_seed_late_decrement(k) ==
    /\ pc = "seq"
    /\ IF remaining > 0
       THEN /\ asked' = asked \cup {k}
            /\ \E o \in ArrayDeserializer(k, pos) :
                  /\ pos' = o.pos
                  /\ IF o.ok
                     THEN /\ remaining' = remaining - 1
                          /\ data' = Append(data, o.val)
                          /\ ret' = Ret("next_element", "Some", o.val, "")
                          /\ UNCHANGED failed
                     ELSE /\ ret' = Ret("next_element", "Err", NoValue, o.err)
                          /\ failed' = failed + 1
                          /\ UNCHANGED <<remaining, data>>
            /\ UNCHANGED exhausted
       ELSE /\ ret' = Ret("next_element", "None", NoValue, "")
            /\ exhausted' = TRUE
            /\ UNCHANGED <<pos, remaining, data, asked, failed>>
    /\ UNCHANGED <<input, start, written, tag, size, stage, live, hint, pc, fields>>

\* next_element_seed: with remaining > 0, remaining is decremented and the
\* seed is given ArrayDeserializer {de, size: 0}, which it asks for a value
\* of kind k; `?` returns a failure as it is.  A seed that asks for a
\* sequence gets ArrayAccess::new(de, 0), an empty sequence, as the element.
next_element_seed(k) ==
    /\ pc = "seq"
    /\ IF remaining > 0
       THEN /\ remaining' = remaining - 1
            /\ asked' = asked \cup {k}
            /\ \E o \in ArrayDeserializer(k, pos) :
                  /\ pos' = o.pos
                  /\ IF o.ok
                     THEN /\ data' = Append(data, o.val)
                          /\ ret' = Ret("next_element", "Some", o.val, "")
                          /\ UNCHANGED failed
                     ELSE /\ ret' = Ret("next_element", "Err", NoValue, o.err)
                          /\ failed' = failed + 1
                          /\ UNCHANGED data
            /\ UNCHANGED exhausted
       ELSE /\ ret' = Ret("next_element", "None", NoValue, "")
            /\ exhausted' = TRUE
            /\ UNCHANGED <<pos, remaining, data, asked, failed>>
    /\ UNCHANGED <<input, start, written, tag, size, stage, live, hint, pc, fields>>

\* Mutant of visit_seq_return: the unread rest of the declared payload is
\* skipped when the visitor returns.
visit_seq_return_skips ==
    /\ pc = "seq"
    /\ pc' = "map"
    /\ live' = FALSE
    /\ pos' = IF remaining > 0 THEN pos + remaining * Width(ElemKind(tag)) ELSE pos
    /\ \E passes \in (IF ret.op = "next_element" /\ ret.res = "Err"
                      THEN {TRUE, FALSE} ELSE {FALSE}) :
          IF passes
          THEN /\ ret' = Ret("next_value", "Err", NoValue, ret.msg)
               /\ UNCHANGED fields
          ELSE /\ ret' = Ret("next_value", "Ok", [kind |-> "seq", limbs |-> <<>>], "")
               /\ fields' = [fields EXCEPT !.data = [kind |-> "seq", limbs |-> <<>>]]
    /\ UNCHANGED <<input, start, written, tag, size, stage, hint,
                   remaining, data, asked, failed, exhausted>>

\* The consumer's visit_seq returns, which ends deserialize_seq and the
\* next_value_seed that called it (both return the visitor's result as it
\* is); the ArrayAccess is dropped.  A visitor that has just been returned
\* an error by next_element_seed either passes it on (`?`) or goes on and
\* returns a sequence.
visit_seq_return ==
    /\ pc = "seq"
    /\ pc' = "map"
    /\ live' = FALSE
    /\ \E passes \in (IF ret.op = "next_element" /\ ret.res = "Err"
                      THEN {TRUE, FALSE} ELSE {FALSE}) :
          IF passes
          THEN /\ ret' = Ret("next_value", "Err", NoValue, ret.msg)
               /\ UNCHANGED fields
          ELSE /\ ret' = Ret("next_value", "Ok", [kind |-> "seq", limbs |-> <<>>], "")
               /\ fields' = [fields EXCEPT !.data = [kind |-> "seq", limbs |-> <<>>]]
    /\ UNCHANGED <<input, pos, start, written, tag, size, stage, hint,
                   remaining, data, asked, failed, exhausted>>

----------------------------------------------------------------------------

Next ==
    \/ next_key_seed
    \/ next_value_seed
    \/ size_hint
    \/ \E k \in Kinds : next_element_seed(k)
    \/ visit_seq_return

Spec == Init /\ [][Next]_vars

----------------------------------------------------------------------------
\* Vocabulary of the properties

\* The value of integer v read as kind k: its two's complement at
\* Width(k) bytes, as base-65536 limbs (one base-256 limb for one byte).
RECURSIVE LimbsOf(_, _)
LimbsOf(v, n) ==
    IF n = 0 THEN <<>>
    ELSE Append(LimbsOf(v \div 65536, n - 1), v % 65536)

ValueOf(v, k) ==
    LET raw  == IF Width(k) = 1 THEN <<v % 256>> ELSE LimbsOf(v, Width(k) \div 2)
        half == IF Width(k) = 1 THEN 128 ELSE 32768
        top  == IF Signed(k) /\ raw[1] >= half THEN raw[1] - 2 * half ELSE raw[1]
    IN  [kind |-> k, limbs |-> <<top>> \o Tail(raw)]

\* The element width an array's tag declares: 1, 4 or 8 bytes.
TagWidth(t) ==
    CASE t = "ByteArray" -> 1
      [] t = "IntArray"  -> 4
      [] t = "LongArray" -> 8

\* The scalar kinds of an array's element width.
KindsAtWidth(t) ==
    CASE t = "ByteArray" -> {"i8", "u8"}
      [] t = "IntArray"  -> {"i32", "u32"}
      [] t = "LongArray" -> {"i64", "u64"}

\* The spec's error kind (section 7) of an outcome.  A read that runs out
\* of input is TruncatedInput; the panic of next_value_seed and the bespoke
\* "fastnbt issue" error of deserialize_any report a misuse of the
\* deserializer, not bad input; nothing in de_arrays.rs reports a
\* MalformedLength.
ErrorKind(r) ==
    CASE r.res = "Panic"                                -> "ProtocolMisuse"
      [] r.res = "Err" /\ r.msg = "io: UnexpectedEof"   -> "TruncatedInput"
      [] r.res = "Err" /\ r.msg # "io: UnexpectedEof"   -> "ProtocolMisuse"
      [] OTHER                                          -> "none"

\* A valid typed array: a count n >= 0 and exactly n elements of payload.
ValidArray == size >= 0 /\ Len(written) = size

\* The consumer has pulled the whole record: both values, the data field as
\* a sequence up to its end, and the key that ends the record.
FullyConsumed ==
    /\ pc = "map"
    /\ stage = "Done"
    /\ exhausted
    /\ ret = Ret("next_key", "None", NoValue, "")

----------------------------------------------------------------------------
\* C1: a valid typed array that the consumer pulls completely, asking for
\* every element as a scalar of the array's element width, gives "tag" the
\* code of the declared tag and a data sequence of exactly `size` elements,
\* the i-th the integer the builder wrote big-endian into the i-th slice of
\* the payload; no read fails and the cursor ends size * width bytes past
\* where it started.
C1_FullDecode ==
    (ValidArray /\ FullyConsumed /\ asked \subseteq KindsAtWidth(tag)) =>
        /\ failed = 0
        /\ fields.tag = [kind |-> "u8", limbs |-> <<TagCode(tag)>>]
        /\ Len(data) = size
        /\ \A i \in 1 .. Len(data) : data[i] = ValueOf(written[i], data[i].kind)
        /\ pos = start + size * TagWidth(tag)

\* C1 witness: the int array [1, -2, 300] (tag code 11, count 3, 16 bytes
\* with the count) pulled completely as i32 gives {tag: 11, data: [1, -2, 300]}.
C1_Witness ==
    /\ ValidArray /\ FullyConsumed
    /\ tag = "IntArray"
    /\ written = <<1, -2, 300>>
    /\ Len(input) = 16
    /\ asked = {"i32"}
    /\ fields.tag.limbs = <<11>>
    /\ data = <<[kind |-> "i32", limbs |-> <<0, 1>>],
                [kind |-> "i32", limbs |-> <<-1, 65534>>],
                [kind |-> "i32", limbs |-> <<0, 300>>]>>
    /\ pos = start + 12

\* C2: the stage starts at Tag and every step leaves it where it is or
\* moves it Tag -> Data or Data -> Done: never backward, never Tag -> Done,
\* never out of Done.
C2_StageLinear ==
    /\ stage = "Tag"
    /\ [][\/ stage' = stage
          \/ stage = "Tag" /\ stage' = "Data"
          \/ stage = "Data" /\ stage' = "Done"]_vars

\* C2 witness: next_value_seed has been called in every stage, the last
\* call on an adapter that was already Done.
C2_Witness == stage = "Done" /\ ret.res = "Panic"

\* C3: next_value_seed called in stage Tag moves the stage to Data, returns
\* the code of the tag the adapter was made with as a u8, and leaves the
\* cursor where it was.
C3_TagValue ==
    [][(stage = "Tag" /\ ret'.op = "next_value") =>
          /\ stage' = "Data"
          /\ ret' = Ret("next_value", "Ok", [kind |-> "u8", limbs |-> <<TagCode(tag)>>], "")
          /\ tag' = tag
          /\ pos' = pos]_vars

\* C3 witness: the tag value of a long array has just been supplied.
C3_Witness ==
    /\ stage = "Data"
    /\ tag = "LongArray"
    /\ ret = Ret("next_value", "Ok", [kind |-> "u8", limbs |-> <<12>>], "")
    /\ pos = start

\* C4: next_value_seed called in stage Data moves the stage to Done; when
\* the consumer takes the value as a sequence it is given an ArrayAccess
\* whose remaining count is the declared size, with no element produced and
\* the cursor not moved; and while that ArrayAccess exists the cursor moves
\* only in next_element_seed calls.
C4_LazySequence ==
    [][/\ (pc = "map" /\ stage = "Data" /\ ret'.op \in {"next_value", "visit_seq"}) =>
             stage' = "Done"
       /\ (pc = "map" /\ ret'.op = "visit_seq") =>
             /\ stage = "Data"
             /\ live' /\ remaining' = size /\ hint' = size
             /\ data' = <<>>
             /\ pos' = pos
       /\ (live' /\ pos' # pos) => (live /\ ret'.op = "next_element")]_vars

\* C4 witness: a sequence of two declared elements has been handed over,
\* the payload still unread.
C4_Witness ==
    /\ live /\ ret.op = "visit_seq"
    /\ size = 2 /\ remaining = 2 /\ hint = 2 /\ Len(written) = 2
    /\ data = <<>>
    /\ pos = start

\* C5: next_key_seed returns "tag" in stage Tag, "data" in stage Data and
\* the end of the record (None) in stage Done.
C5_Keys ==
    ret.op = "next_key" =>
        ret = CASE stage = "Tag"  -> Ret("next_key", "Some", NoValue, "tag")
                [] stage = "Data" -> Ret("next_key", "Some", NoValue, "data")
                [] stage = "Done" -> Ret("next_key", "None", NoValue, "")

\* C5 witness: the key asked for between the two values is "data".
C5_Witness == stage = "Data" /\ ret.op = "next_key" /\ ret.msg = "data"

\* C6: next_value_seed called in stage Done panics with "extra key": the
\* call is reported as a misuse, never as one of the bad-input errors, and
\* neither the cursor nor the stage moves.
C6_ExtraValuePanics ==
    [][(pc = "map" /\ stage = "Done" /\ ret'.op = "next_value") =>
          /\ ret' = Ret("next_value", "Panic", NoValue, "extra key")
          /\ ErrorKind(ret') = "ProtocolMisuse"
          /\ ErrorKind(ret') \notin {"TruncatedInput", "MalformedLength"}
          /\ pos' = pos
          /\ stage' = "Done"]_vars

\* C6 witness: the extra call has been made after the data field was
\* pulled as a sequence with elements read.
C6_Witness ==
    /\ ret = Ret("next_value", "Panic", NoValue, "extra key")
    /\ Len(data) > 0
    /\ pos > start

\* C7: a second request for the tag value, made once the tag value has been
\* supplied and before the data field has been asked for, fails as a
\* ProtocolMisuse and leaves the cursor where it was.  (The request is a
\* next_value_seed call whose seed asks for anything but a sequence, as the
\* seed of the tag field does; the claim is stated here for valid arrays
\* that are not empty, the case in which no bad input is involved.)
C7_SecondTagRequestFails ==
    [][(/\ ValidArray /\ size > 0
        /\ pc = "map" /\ stage = "Data" /\ fields.tag # NoValue
        /\ ret'.op = "next_value") =>
          /\ ErrorKind(ret') = "ProtocolMisuse"
          /\ pos' = pos]_vars

\* C8: on an ArrayAccess made with size >= 0, when next_element_seed
\* signals the end and no call has failed, exactly `size` calls have
\* produced an element; a call that fails returns the error and no element,
\* and adds nothing to the elements produced.
C8_ExactlySizeElements ==
    /\ []((exhausted /\ size >= 0 /\ failed = 0) => Len(data) = size)
    /\ []((live /\ size >= 0) => Len(data) + failed <= size)
    /\ [][(ret'.op = "next_element" /\ ret'.res = "Err") =>
             /\ data' = data
             /\ ret'.val = NoValue
             /\ ret'.msg # ""]_vars

\* C8 witness: two elements produced, then the end signalled.
C8_Witness ==
    /\ exhausted /\ failed = 0
    /\ size = 2 /\ Len(data) = 2
    /\ ret = Ret("next_element", "None", NoValue, "")

\* C9 as claimed: remaining is always the declared size less the elements
\* produced, also after a call that failed.
C9_RemainingCountsProduced == live => remaining = size - Len(data)

\* C9 as amended: remaining is decremented once per next_element_seed call
\* that finds remaining > 0, before the element is read, whether the read
\* then succeeds or fails: remaining is the declared size less the elements
\* produced and less the calls that failed.
C9_RemainingCountsAttempts ==
    live => /\ remaining = size - Len(data) - failed
            /\ (failed = 0 => remaining = size - Len(data))

\* C9 witness: one element produced, then one call failed.
C9_Witness ==
    /\ live
    /\ size = 2 /\ Len(data) = 1 /\ failed = 1 /\ remaining = 0
    /\ ret.res = "Err"

C11_TruncatedPayload ==
    /\ [][(/\ live /\ failed = 0 /\ remaining > 0
           /\ Len(data) = Len(written)
           /\ asked' \subseteq KindsAtWidth(tag)
           /\ ret'.op = "next_element") =>
             /\ ret' = Ret("next_element", "Err", NoValue, "io: UnexpectedEof")
             /\ ErrorKind(ret') = "TruncatedInput"
             /\ data' = data]_vars
    /\ [](asked \subseteq KindsAtWidth(tag) =>
             /\ Len(data) <= Len(written)
             /\ \A i \in 1 .. Len(data) : data[i] = ValueOf(written[i], data[i].kind))
    /\ []((asked \subseteq KindsAtWidth(tag) /\ size > Len(written) /\ exhausted) =>
             failed > 0)
    /\ [][(pc = "seq" /\ pc' = "map" /\ ret'.res = "Err") =>
             /\ ret.op = "next_element" /\ ret.res = "Err"
             /\ ret' = Ret("next_value", "Err", NoValue, ret.msg)
             /\ fields' = fields]_vars

\* C11 witness: a byte array declaring 3 elements with 2 bytes present;
\* the third read has failed and the visitor has passed the error on.
C11_Witness ==
    /\ tag = "ByteArray" /\ size = 3 /\ Len(written) = 2
    /\ asked = {"i8"}
    /\ Len(data) = 2 /\ failed = 1
    /\ ret = Ret("next_value", "Err", NoValue, "io: UnexpectedEof")
    /\ fields.data = NoValue

\* C12: a typed array with a negative declared count fails with
\* MalformedLength when its data field is consumed, before any element byte
\* is read: every next() on its Element Sequence reports MalformedLength
\* and the cursor is where the adapter found it.
C12_NegativeCountFails ==
    (size < 0 /\ ret.op = "next_element") =>
        (ret.res = "Err" /\ ErrorKind(ret) = "MalformedLength" /\ pos = start)

\* C13 as stated: a declared count that needs more payload bytes than the
\* buffer holds is rejected as MalformedLength before any element byte is
\* read, so the error is reported with the cursor where the adapter found
\* it.
C13_RejectedBeforeAnyRead ==
    (/\ size > Len(written) /\ Len(written) >= 1
     /\ asked \subseteq KindsAtWidth(tag)
     /\ ret.op = "next_element" /\ ret.res = "Err") =>
        (ErrorKind(ret) = "MalformedLength" /\ pos = start)

\* C13 amended: nothing checks the declared count against the bytes left.
\* Pulled at the array's element width, every element the payload holds is
\* read and produced first, no error is reported while whole elements are
\* left, and the error is the TruncatedInput of the read that runs out,
\* reported with the cursor past all the elements the payload holds.
C13_RejectedByTheReadThatRunsOut ==
    (asked \subseteq KindsAtWidth(tag) /\ size > Len(written)) =>
        /\ (Len(data) < Len(written) => failed = 0)
        /\ (failed >= 1 =>
              /\ Len(data) = Len(written)
              /\ pos = start + Len(written) * TagWidth(tag))
        /\ ((ret.op = "next_element" /\ ret.res = "Err") =>
              ErrorKind(ret) = "TruncatedInput")

\* C13 witness: an int array declaring 3 elements with 1 present; the one
\* element was produced, then the second read failed, 4 bytes past start.
C13_Witness ==
    /\ tag = "IntArray" /\ size = 3 /\ Len(written) = 1
    /\ asked = {"i32"}
    /\ Len(data) = 1 /\ failed = 1
    /\ ret = Ret("next_element", "Err", NoValue, "io: UnexpectedEof")
    /\ pos = start + 4

\* C14: size_hint() on an Element Sequence returns the remaining declared
\* count: with k elements successfully pulled from a sequence of declared
\* count n (and no failed pull), it returns n - k.
C14_HintIsRemaining ==
    (ret.op = "size_hint" /\ size >= 0 /\ failed = 0) =>
        ret = Ret("size_hint", "Some",
                  [kind |-> "usize", limbs |-> <<size - Len(data)>>], "")

\* C15: size_hint() on the data field, asked before any element is pulled,
\* is the declared count (a count n >= 0); for a declared count of 0 the
\* hint is 0, every next() signals the end of the sequence, no element is
\* produced and the cursor stays where the adapter found it.
C15_HintBeforePulling ==
    /\ (ret.op = "size_hint" /\ size >= 0 /\ asked = {}) =>
          ret = Ret("size_hint", "Some", [kind |-> "usize", limbs |-> <<size>>], "")
    /\ (size = 0 /\ pc = "seq") =>
          /\ ret.op = "size_hint" =>
                ret = Ret("size_hint", "Some", [kind |-> "usize", limbs |-> <<0>>], "")
          /\ ret.op = "next_element" =>
                (ret = Ret("next_element", "None", NoValue, "") /\ exhausted)
          /\ data = <<>> /\ failed = 0 /\ asked = {}
          /\ pos = start

\* C15 witness: declared count 0; next() has signalled the end and the
\* hint, asked with nothing pulled, is 0; the cursor has not moved.
C15_Witness ==
    /\ size = 0 /\ exhausted /\ data = <<>>
    /\ ret = Ret("size_hint", "Some", [kind |-> "usize", limbs |-> <<0>>], "")
    /\ pos = start

\* Bytes of the elements pulled: the width of each scalar produced (a
\* nested sequence produced for an element takes no bytes).
RECURSIVE PulledBytes(_)
PulledBytes(d) ==
    IF d = <<>> THEN 0
    ELSE (CASE Head(d).kind \in {"i8", "u8"}   -> 1
            [] Head(d).kind \in {"i32", "u32"} -> 4
            [] Head(d).kind \in {"i64", "u64"} -> 8
            [] OTHER                           -> 0) + PulledBytes(Tail(d))

\* C16: no skipping of what the consumer leaves unread.  Until the data
\* field is asked for (nothing read, or only the tag) the cursor is where
\* the adapter found it; while the data sequence is pulled and after the
\* visitor has returned, with no pull failed, the cursor is that position
\* plus the bytes of the elements produced, however many were declared.
C16_NoAutoSkip ==
    /\ stage # "Done" => pos = start
    /\ ((live \/ fields.data.kind = "seq") /\ failed = 0) =>
          pos = start + PulledBytes(data)

\* C16 witness: 3 elements declared and present, 1 pulled, the visitor has
\* returned and the record has been ended; the cursor is one element in.
C16_Witness ==
    /\ size = 3 /\ Len(written) = 3 /\ Len(data) = 1 /\ failed = 0
    /\ pc = "map" /\ fields.data.kind = "seq"
    /\ ret = Ret("next_key", "None", NoValue, "")
    /\ pos = start + TagWidth(tag)

\* C17: an element or the data field asked for as any kind other than a
\* sequence or an 8/32/64-bit integer fails at once with ProtocolMisuse
\* (the bespoke "unexpected any" error): nothing is decoded in its place,
\* no value is supplied and the cursor does not move.
C17_UnsupportedKindFailsFast ==
    [][((pc = "seq" /\ remaining > 0 /\ next_element_seed("other"))
         \/ ValueData("other")) =>
          /\ ret'.res = "Err"
          /\ ErrorKind(ret') = "ProtocolMisuse"
          /\ ret'.val = NoValue
          /\ pos' = pos
          /\ data' = data
          /\ fields' = fields]_vars

\* C17 witness: after one element was produced the next was asked for as
\* an unsupported kind; the call failed and the cursor is one element in.
C17_Witness ==
    /\ "other" \in asked /\ Len(data) = 1 /\ failed = 1
    /\ ret = Ret("next_element", "Err", NoValue,
                 "bespoke: fastnbt issue: unexpected any in ArrayDeserializer")
    /\ pos = start + TagWidth(tag)

\* The width in bytes of a scalar kind: 8-bit 1, 32-bit 4, 64-bit 8.
ScalarWidth(k) ==
    CASE k \in {"i8", "u8"}   -> 1
      [] k \in {"i32", "u32"} -> 4
      [] k \in {"i64", "u64"} -> 8

\* C18: a scalar read of width w, made for an element, that succeeds
\* advances the cursor by exactly w and returns the big-endian value of
\* those w bytes; with fewer than w bytes left it fails with TruncatedInput
\* and has no other side effect: no value, no element, and the cursor
\* where it was.
C18_ScalarRead ==
    [][\A k \in ScalarKinds :
         (pc = "seq" /\ remaining > 0 /\ next_element_seed(k)) =>
            IF pos + ScalarWidth(k) <= Len(input)
            THEN /\ ret'.res \in {"Some", "Ok"}
                 /\ pos' = pos + ScalarWidth(k)
                 /\ ret'.val = from_be_bytes(
                        SubSeq(input, pos + 1, pos + ScalarWidth(k)), k)
            ELSE /\ ret'.res = "Err"
                 /\ ErrorKind(ret') = "TruncatedInput"
                 /\ ret'.val = NoValue
                 /\ data' = data
                 /\ pos' = pos]_vars

\* C19: the cursor only moves forward: no step of the adapter or of the
\* Element Sequence, successful or failing, puts it back.
C19_CursorForwardOnly == [][pos' >= pos]_vars

\* C19 witness: elements were produced, then a read failed, and the cursor
\* is at the end of the buffer, past where the adapter found it.
C19_Witness ==
    /\ Len(data) >= 1 /\ failed >= 1
    /\ pos = Len(input) /\ pos > start

\* C20: next_key_seed is a pure query: a call changes nothing but what it
\* returns, a call that follows another returns the same answer, and the
\* stage moves only in next_value_seed.
C20_KeyIsPureQuery ==
    [][/\ ret'.op = "next_key" =>
            /\ UNCHANGED <<input, pos, start, written, tag, size, stage, live,
                           hint, remaining, pc, fields, data, asked, failed,
                           exhausted>>
            /\ (ret.op = "next_key" => ret' = ret)
       /\ stage' # stage => ret'.op \in {"next_value", "visit_seq"}]_vars

\* C20 witness: the tag has been read and the key asked for in the Data
\* stage: the answer is "data" and the cursor has not moved.
C20_Witness ==
    /\ stage = "Data" /\ fields.tag # NoValue
    /\ ret = Ret("next_key", "Some", NoValue, "data")
    /\ pos = start

====
